---- MODULE Spec2Model ----
(***************************************************************************)
(* A model of astroid/interpreter/objects.py: the runtime object           *)
(* representations (Instance, UnboundMethod, BoundMethod, Super) and their *)
(* attribute-resolution protocol.                                          *)
(*                                                                         *)
(* Generators are modelled by what a consumer can observe of them: the     *)
(* sequence of values yielded and the exception, if any, that ends the     *)
(* iteration ([vals, err]).  The recursion                                 *)
(*   igetattr -> _wrap_attr -> infer_call_result -> igetattr               *)
(* is modelled step by step with an explicit stack of generator frames.    *)
(***************************************************************************)
EXTENDS Integers, Sequences, FiniteSets, TLC

VARIABLES
    heap,     \* the InferenceContext objects alive; heap[1] is the caller's
    paths,    \* the recursion-guard sets; a context names its set by index
    sup,      \* the Super object under test
    op,       \* the top-level call in progress (or last finished)
    pc,       \* "idle" | "run" | "done": position of the top-level call
    stack,    \* generator frames of the lookups in progress, innermost last
    result    \* what the finished top-level call returned or raised

vars == <<heap, paths, sup, op, pc, stack, result>>

(***************************************************************************)
(* Bounds of the model.                                                    *)
(***************************************************************************)
\* longest attribute list handed to _wrap_attr by the caller
MaxAttrs == 2
\* deepest stack of nested lookups the model follows
MaxDepth == 6
\* most entries the caller's recursion guard may hold when a call starts
MaxVisited == 1

(***************************************************************************)
(* Exceptions.                                                             *)
(***************************************************************************)
NoError == "none"
AttributeInferenceError == "AttributeInferenceError"
InferenceError == "InferenceError"
SuperError == "SuperError"
MroError == "MroError"
StopIteration == "StopIteration"
AttributeError == "AttributeError"

Ok(vs) == [vals |-> vs, err |-> NoError]
Raise(e) == [vals |-> <<>>, err |-> e]

(***************************************************************************)
(* Values: syntax-tree nodes and runtime objects.                          *)
(***************************************************************************)
None == [kind |-> "None"]
Uninferable == [kind |-> "Uninferable"]
Const(v) == [kind |-> "Const", value |-> v]
ClassDef(c) == [kind |-> "ClassDef", name |-> c]
Instance(c) == [kind |-> "Instance", proxied |-> c]
UnboundMethod(f) == [kind |-> "UnboundMethod", proxied |-> f]
BoundMethod(f, b) == [kind |-> "BoundMethod", proxied |-> f, bound |-> b]
\* a raw assignment statement and the values its inference gives
AssignName(v) == [kind |-> "AssignName", infers |-> <<v>>]
AssignAttr(v) == [kind |-> "AssignAttr", infers |-> <<v>>]
\* a lambda: whether its statement's scope is a class body, and its parameters
Lambda(inclass, args) ==
    [kind |-> "Lambda", name |-> "<lambda>", inclass |-> inclass, args |-> args]
\* a member of an object model (special_attributes.lookup)
Special(owner, n) == [kind |-> "Special", owner |-> owner, name |-> n]
\* a call node, each argument given by the values it infers to
Call(args) == [kind |-> "Call", args |-> args]

\* a dotted decorator name, by its components
QName(parts) == [kind |-> "QName", parts |-> parts]

\* what a function returns
RetConst(v) == [k |-> "const", v |-> v, cls |-> "", name |-> ""]
RetSelf == [k |-> "self", v |-> 0, cls |-> "", name |-> ""]
RetArg == [k |-> "arg", v |-> 0, cls |-> "", name |-> ""]
RetNothing == [k |-> "nothing", v |-> 0, cls |-> "", name |-> ""]
RetFail == [k |-> "fail", v |-> 0, cls |-> "", name |-> ""]
\* return <instance of c>.n
RetAttr(c, n) == [k |-> "attr", v |-> 0, cls |-> c, name |-> n]

FunctionDef(n, c, t, decs, body) ==
    [kind |-> "FunctionDef", name |-> n, parent |-> c, type |-> t,
     decorators |-> decs, body |-> body]

Last(s) == s[Len(s)]

\* Op applied to the value of v, v being computed once
With(v, Op(_)) == CHOOSE r \in {Op(x) : x \in {v}} : TRUE

(***************************************************************************)
(* Module constants of objects.py.                                         *)
(***************************************************************************)
BUILTINS == "builtins"
BOOL_SPECIAL_METHOD == "__bool__"
PROPERTIES == {QName(<<BUILTINS, "property">>), QName(<<"abc", "abstractproperty">>)}
POSSIBLE_PROPERTIES ==
    {"cached_property", "cachedproperty", "lazyproperty", "lazy_property",
     "reify", "lazyattribute", "lazy_attribute", "LazyProperty", "lazy"}

(***************************************************************************)
(* The analysed program: a fixed set of class descriptors.                 *)
(*   class A(object); class B(A); class C(B); class D(object);             *)
(*   class M(B, D); class Old (old-style); class Bad (no linearization)    *)
(***************************************************************************)
Classes == {"A", "B", "C", "D", "M", "Old", "Bad", "object"}

DProperty == {QName(<<BUILTINS, "property">>)}
DClassmethod == {QName(<<BUILTINS, "classmethod">>)}
DStaticmethod == {QName(<<BUILTINS, "staticmethod">>)}

F_A_m == FunctionDef("m", "A", "method", {}, RetSelf)
F_A_cm == FunctionDef("cm", "A", "classmethod", DClassmethod, RetConst(2))
F_A_sm == FunctionDef("sm", "A", "staticmethod", DStaticmethod, RetConst(3))
F_A_p == FunctionDef("p", "A", "method", DProperty, RetAttr("A", "p"))
F_A_v == FunctionDef("v", "A", "method", {QName(<<"abc", "abstractproperty">>)}, RetSelf)
F_B_m == FunctionDef("m", "B", "method", {QName(<<"mymod", "property">>)}, RetConst(4))
F_B_q == FunctionDef("q", "B", "method", DProperty, RetAttr("D", "r"))
F_B_len == FunctionDef("__len__", "B", "method", {}, RetConst(0))
F_B_getitem == FunctionDef("__getitem__", "B", "method", {}, RetArg)
F_C_bool == FunctionDef("__bool__", "C", "method", {}, RetConst(1))
F_C_w == FunctionDef("w", "C", "method",
                     {Uninferable, QName(<<"functools", "cached_property">>)}, RetConst(7))
F_D_r == FunctionDef("r", "D", "method",
                     {QName(<<"django", "utils", "cached_property">>)}, RetAttr("M", "s"))
F_D_bool == FunctionDef("__bool__", "D", "method", {}, RetFail)
F_D_len == FunctionDef("__len__", "D", "method", {}, RetConst(3))
F_D_getitem == FunctionDef("__getitem__", "D", "staticmethod", DStaticmethod, RetArg)
F_M_s == FunctionDef("s", "M", "method", DProperty, RetAttr("B", "q"))
F_M_getitem == FunctionDef("__getitem__", "M", "method", {}, RetNothing)
F_Old_bool == FunctionDef("__bool__", "Old", "method", {}, RetConst(0))
F_Old_len == FunctionDef("__len__", "Old", "method", {}, RetConst(5))
F_D_size == FunctionDef("size", "D", "method", DProperty, RetAttr("D", "x"))
F_Bad_len == FunctionDef("__len__", "Bad", "method", {}, RetAttr("D", "size"))
F_Bad_getitem == FunctionDef("__getitem__", "Bad", "method", {}, RetAttr("D", "size"))
F_object_new == FunctionDef("__new__", "object", "staticmethod", {}, RetNothing)

LamSelf == Lambda(TRUE, <<"self">>)
LamOther == Lambda(TRUE, <<"a">>)
LamFree == Lambda(FALSE, <<"self">>)

\* ClassDef.locals: the declarations of name n in the body of class c
locals(c, n) ==
    CASE c = "A" /\ n = "x" -> <<AssignName(Const(1))>>
      [] c = "A" /\ n = "m" -> <<F_A_m>>
      [] c = "A" /\ n = "cm" -> <<F_A_cm>>
      [] c = "A" /\ n = "sm" -> <<F_A_sm>>
      [] c = "A" /\ n = "p" -> <<F_A_p>>
      [] c = "A" /\ n = "v" -> <<F_A_v>>
      [] c = "A" /\ n = "lam" -> <<LamSelf>>
      [] c = "B" /\ n = "x" -> <<AssignName(Const(5))>>
      [] c = "B" /\ n = "m" -> <<F_B_m>>
      [] c = "B" /\ n = "q" -> <<F_B_q>>
      [] c = "B" /\ n = "__len__" -> <<F_B_len>>
      [] c = "B" /\ n = "__getitem__" -> <<F_B_getitem>>
      [] c = "C" /\ n = "__bool__" -> <<F_C_bool>>
      [] c = "C" /\ n = "w" -> <<F_C_w>>
      [] c = "C" /\ n = "lam" -> <<LamOther>>
      [] c = "D" /\ n = "r" -> <<F_D_r>>
      [] c = "D" /\ n = "__bool__" -> <<F_D_bool>>
      [] c = "D" /\ n = "__len__" -> <<F_D_len>>
      [] c = "D" /\ n = "__getitem__" -> <<F_D_getitem>>
      [] c = "D" /\ n = "size" -> <<F_D_size>>
      [] c = "Bad" /\ n = "__len__" -> <<F_Bad_len>>
      [] c = "Bad" /\ n = "__getitem__" -> <<F_Bad_getitem>>
      [] c = "M" /\ n = "s" -> <<F_M_s>>
      [] c = "M" /\ n = "__getitem__" -> <<F_M_getitem>>
      [] c = "Old" /\ n = "__bool__" -> <<F_Old_bool>>
      [] c = "Old" /\ n = "__len__" -> <<F_Old_len>>
      [] c = "Old" /\ n = "__getitem__" -> <<AssignName(Const(9))>>
      [] OTHER -> <<>>

\* ClassDef.instance_attrs: the self-assignments to name n in class c
instance_attrs(c, n) ==
    CASE c = "A" /\ n = "x" -> <<AssignAttr(Const(10)), AssignAttr(Const(11))>>
      [] c = "B" /\ n = "y" -> <<AssignAttr(Const(20))>>
      [] c = "D" /\ n = "x" -> <<AssignAttr(Const(30))>>
      [] OTHER -> <<>>

\* a class and its ancestors, nearest first
ancestors(c) ==
    CASE c = "A" -> <<"A", "object">>
      [] c = "B" -> <<"B", "A", "object">>
      [] c = "C" -> <<"C", "B", "A", "object">>
      [] c = "D" -> <<"D", "object">>
      [] c = "M" -> <<"M", "B", "A", "D", "object">>
      [] c = "Old" -> <<"Old">>
      [] c = "Bad" -> <<"Bad", "A", "object">>
      [] OTHER -> <<"object">>

\* ClassDef.newstyle
newstyle(c) == c # "Old"

\* ClassDef.mro(): the linearization, or MroError
mro(c) == IF c = "Bad" THEN Raise(MroError) ELSE Ok(ancestors(c))

\* the concatenation of the sequences ss[k], ss[k + 1], ...
RECURSIVE FlattenFrom(_, _)
FlattenFrom(ss, k) == IF k > Len(ss) THEN <<>> ELSE ss[k] \o FlattenFrom(ss, k + 1)
Flatten(ss) == With(ss, LAMBDA s : FlattenFrom(s, 1))

\* ClassDef.instance_attr(name): own and inherited self-assignments
instance_attr(c, n) ==
    With(Flatten([i \in 1..Len(ancestors(c)) |-> instance_attrs(ancestors(c)[i], n)]),
         LAMBDA vs : IF vs = <<>> THEN Raise(AttributeInferenceError) ELSE Ok(vs))

\* ClassDef.getattr(name, class_context=False): own and inherited declarations
ClassDef_getattr(c, n) ==
    With(Flatten([i \in 1..Len(ancestors(c)) |-> locals(ancestors(c)[i], n)]),
         LAMBDA vs : IF vs = <<>> THEN Raise(AttributeInferenceError) ELSE Ok(vs))

\* the inference of one statement or object (infer_stmts applies it to each)
infer(stmt) ==
    IF stmt.kind \in {"AssignName", "AssignAttr"} THEN stmt.infers ELSE <<stmt>>

infer_stmts(stmts) ==
    With(stmts, LAMBDA ss : Flatten([i \in 1..Len(ss) |-> infer(ss[i])]))

\* what ClassDef.igetattr makes of an inferred class member
function_to_method(v, c) ==
    IF v.kind # "FunctionDef" THEN v
    ELSE IF v.type = "classmethod" THEN BoundMethod(v, ClassDef(c))
    ELSE IF v.type = "staticmethod" THEN v
    ELSE UnboundMethod(v)

\* ClassDef.igetattr(name, class_context=False); ek is the kind of error the
\* class descriptor reports for a name it does not have
ClassDef_igetattr(c, n, ek) ==
    With(ClassDef_getattr(c, n), LAMBDA g :
    With(infer_stmts(g.vals), LAMBDA vs :
        IF g.err # NoError THEN Raise(ek)
        ELSE Ok([i \in 1..Len(vs) |-> function_to_method(vs[i], c)])))

\* the object models (special_attributes) of Instance and of Super
InstanceModel == {"__class__", "__doc__"}
SuperModel == {"__thisclass__", "__self__", "__class__"}

\* is_property with the exact allow-list only
is_property_exact(meth) == PROPERTIES \cap meth.proxied.decorators # {}

(***************************************************************************)
(* is_property                                                             *)
(***************************************************************************)
decoratornames(meth) ==
    IF meth.kind \in {"UnboundMethod", "BoundMethod"}
    THEN meth.proxied.decorators ELSE meth.decorators

is_property(meth) ==
    IF PROPERTIES \cap decoratornames(meth) # {} THEN TRUE
    ELSE LET stripped == {Last(name.parts) :
                            name \in {d \in decoratornames(meth) : d # Uninferable}}
         IN  \E name \in POSSIBLE_PROPERTIES : name \in stripped

\* getattr with the class members put first
BaseInstance_getattr_swapped(self, name, lookupclass) ==
    With(instance_attr(self.proxied, name), LAMBDA values :
    With(ClassDef_getattr(self.proxied, name), LAMBDA cls :
        IF values.err = AttributeInferenceError
        THEN IF name \in InstanceModel THEN Ok(<<Special(self, name)>>)
             ELSE IF lookupclass THEN cls
             ELSE Raise(AttributeInferenceError)
        ELSE IF lookupclass /\ cls.err = NoError THEN Ok(cls.vals \o values.vals)
        ELSE Ok(values.vals)))

(***************************************************************************)
(* BaseInstance.getattr                                                    *)
(***************************************************************************)
BaseInstance_getattr(self, name, lookupclass) ==
    With(instance_attr(self.proxied, name), LAMBDA values :
    With(ClassDef_getattr(self.proxied, name), LAMBDA cls :
        IF values.err = AttributeInferenceError
        THEN IF name \in InstanceModel THEN Ok(<<Special(self, name)>>)
             ELSE IF lookupclass THEN cls
             ELSE Raise(AttributeInferenceError)
        ELSE IF lookupclass /\ cls.err = NoError THEN Ok(values.vals \o cls.vals)
        ELSE Ok(values.vals)))

(***************************************************************************)
(* Inference contexts.  A context object holds a reference to its          *)
(* recursion-guard set (clones share it), a call context and a bound node. *)
(* A context reference is an index into heap; 0 stands for no context.     *)
(***************************************************************************)
CallContext(args) == [kind |-> "CallContext", args |-> args]

\* contextmod.InferenceContext(): a new object with a guard set of its own
InferenceContext(ps) ==
    [path |-> Len(ps) + 1, callcontext |-> None, boundnode |-> None]

\* context.push(key): whether key was already visited, and the guard sets after
push(ps, c, key) ==
    [visited |-> key \in ps[c.path],
     paths |-> [ps EXCEPT ![c.path] = @ \cup {key}]]

(***************************************************************************)
(* Calls.  A call either has its result at once or has to look an          *)
(* attribute up on an instance first (the function returns <instance>.n):  *)
(* [now, res, target, name, ctx, heap, paths].                             *)
(***************************************************************************)
Now(r, cid, h, ps) ==
    [now |-> TRUE, res |-> r, target |-> None, name |-> "", ctx |-> cid,
     heap |-> h, paths |-> ps]
Lookup(t, n, cid, h, ps) ==
    [now |-> FALSE, res |-> Ok(<<>>), target |-> t, name |-> n, ctx |-> cid,
     heap |-> h, paths |-> ps]

\* FunctionDef.infer_call_result(caller, context): the values of the return
\* statement, inferred under the context it is given
FunctionDef_infer_call_result(f, caller, cid, h, ps) ==
    CASE f.body.k = "const" -> Now(Ok(<<Const(f.body.v)>>), cid, h, ps)
      [] f.body.k = "self" ->
            Now(Ok(<<IF cid # 0 /\ h[cid].boundnode # None
                     THEN h[cid].boundnode ELSE Instance(f.parent)>>), cid, h, ps)
      [] f.body.k = "arg" ->
            Now(Ok(<<IF cid # 0 /\ h[cid].callcontext # None
                        /\ h[cid].callcontext.args # <<>>
                     THEN h[cid].callcontext.args[1] ELSE Uninferable>>), cid, h, ps)
      [] f.body.k = "nothing" -> Now(Ok(<<>>), cid, h, ps)
      [] f.body.k = "fail" -> Now(Raise(InferenceError), cid, h, ps)
      [] f.body.k = "attr" -> Lookup(Instance(f.body.cls), f.body.name, cid, h, ps)

\* the result of object.__new__: an instance of each class the first argument
\* infers to
object_new(caller) ==
    IF caller.kind # "Call" THEN Raise(AttributeError)
    ELSE IF caller.args = <<>> THEN Ok(<<>>)
    ELSE LET infer0 == caller.args[1]
         IN  Ok([i \in 1..Len(infer0) |->
                   IF infer0[i] = Uninferable THEN Uninferable
                   ELSE Instance(infer0[i].name)])

UnboundMethod_infer_call_result(self, caller, cid, h, ps) ==
    IF self.proxied.name = "__new__" /\ self.proxied.parent = "object"
    THEN Now(object_new(caller), cid, h, ps)
    ELSE FunctionDef_infer_call_result(self.proxied, caller, cid, h, ps)

\* BoundMethod.infer_call_result that sets boundnode on the context it is given
BoundMethod_infer_call_result_noclone(self, caller, cid, h, ps) ==
    LET h1 == IF cid = 0 THEN Append(h, InferenceContext(ps)) ELSE h
        ps1 == IF cid = 0 THEN Append(ps, {}) ELSE ps
        c1 == IF cid = 0 THEN Len(h1) ELSE cid
    IN  UnboundMethod_infer_call_result(self, caller, c1,
                                        [h1 EXCEPT ![c1].boundnode = self.bound], ps1)

BoundMethod_infer_call_result(self, caller, cid, h, ps) ==
    LET h1 == IF cid = 0 THEN Append(h, InferenceContext(ps)) ELSE h
        ps1 == IF cid = 0 THEN Append(ps, {}) ELSE ps
        c1 == IF cid = 0 THEN Len(h1) ELSE cid
        \* context = context.clone()
        h2 == Append(h1, h1[c1])
        c2 == Len(h2)
        \* context.boundnode = self.bound
        h3 == [h2 EXCEPT ![c2].boundnode = self.bound]
    IN  UnboundMethod_infer_call_result(self, caller, c2, h3, ps1)

\* meth.infer_call_result(caller, context), by the class of meth
infer_call_result(meth, caller, cid, h, ps) ==
    CASE meth.kind = "BoundMethod" -> BoundMethod_infer_call_result(meth, caller, cid, h, ps)
      [] meth.kind = "UnboundMethod" -> UnboundMethod_infer_call_result(meth, caller, cid, h, ps)
      [] meth.kind = "FunctionDef" -> FunctionDef_infer_call_result(meth, caller, cid, h, ps)

(***************************************************************************)
(* BaseInstance._wrap_attr: what the loop body makes of one attribute.     *)
(* [call, val]: call says that val is a method whose inferred call result  *)
(* is yielded; otherwise val itself is yielded.                            *)
(***************************************************************************)
Yield(v) == [call |-> FALSE, val |-> v]
YieldFrom(m) == [call |-> TRUE, val |-> m]

_wrap_attr(self, attr) ==
    IF attr.kind \in {"UnboundMethod", "BoundMethod"}
    THEN IF is_property(attr) THEN YieldFrom(attr)
         ELSE Yield(BoundMethod(attr.proxied, self))
    ELSE IF "name" \in DOMAIN attr /\ attr.name = "<lambda>"
    THEN IF attr.inclass /\ attr.args # <<>> /\ attr.args[1] = "self"
         THEN Yield(BoundMethod(attr, self))
         ELSE Yield(attr)
    ELSE Yield(attr)

(***************************************************************************)
(* Generator frames.  A frame is one running generator: an igetattr of an  *)
(* instance, a _wrap_attr called on its own, or the lookup loop of         *)
(* Super.igetattr.  todo holds what is left to iterate over, out the       *)
(* values yielded so far (src: the position in todo's original sequence   *)
(* of the item each came from), pend the exception that ends the iterated  *)
(* sequence, log the lookups the frame has made.                           *)
(***************************************************************************)
Frame(kind, self, name, cid, phase, todo, pend) ==
    [kind |-> kind, self |-> self, name |-> name, ctx |-> cid, phase |-> phase,
     todo |-> todo, out |-> <<>>, src |-> <<>>, pend |-> pend, err |-> NoError,
     log |-> <<>>, reentered |-> FALSE]

Items(vs, c) ==
    With(vs, LAMBDA s : [i \in 1..Len(s) |-> [val |-> s[i], cls |-> c, idx |-> i]])

\* the kinds of error a class descriptor may report for a missing name
ErrKinds == {AttributeInferenceError, InferenceError}

Top == stack[Len(stack)]
SetTop(f) == [stack EXCEPT ![Len(stack)] = f]
Running(f) == f.phase \in {"first", "fallback", "wrap", "super"}

\* the generator has ended, normally or by raising e
Done(f, e) == [f EXCEPT !.phase = "done", !.err = e, !.todo = <<>>, !.pend = NoError]

\* igetattr, the except clause: fall back to the igetattr of the class
igetattr_fallback(f, ek) ==
    With(ClassDef_igetattr(f.self.proxied, f.name, ek), LAMBDA attrs :
        [f EXCEPT !.phase = "fallback", !.todo = Items(attrs.vals, ""),
                  !.pend = attrs.err, !.log = Append(@, "class_igetattr")])

\* igetattr that goes on although push reports the pair as visited
igetattr_enter_unguarded(f, visited, ek) ==
    With(BaseInstance_getattr(f.self, f.name, FALSE), LAMBDA attrs :
    With([f EXCEPT !.log = Append(@, "getattr")], LAMBDA g :
        IF attrs.err = AttributeInferenceError THEN igetattr_fallback(g, ek)
        ELSE [g EXCEPT !.phase = "first", !.todo = Items(attrs.vals, "")]))

\* igetattr, from its entry to the call of getattr
igetattr_enter(f, visited, ek) ==
    With(BaseInstance_getattr(f.self, f.name, FALSE), LAMBDA attrs :
    With([f EXCEPT !.log = Append(@, "getattr")], LAMBDA g :
        IF visited THEN Done(f, NoError)
        ELSE IF attrs.err = AttributeInferenceError THEN igetattr_fallback(g, ek)
        ELSE [g EXCEPT !.phase = "first", !.todo = Items(attrs.vals, "")]))

\* igetattr that lets the error of its fallback out as it is
FrameRaise_unconverted(f, e, ek) ==
    IF f.kind = "igetattr" /\ f.phase = "first" /\ e = AttributeInferenceError
    THEN igetattr_fallback(f, ek)
    ELSE Done(f, e)

\* exception e is raised inside the body of the generator
FrameRaise(f, e, ek) ==
    IF f.kind = "igetattr" /\ f.phase = "first" /\ e = AttributeInferenceError
    THEN igetattr_fallback(f, ek)
    ELSE IF f.kind = "igetattr" /\ f.phase = "fallback" /\ e = AttributeInferenceError
    THEN Done(f, InferenceError)
    ELSE Done(f, e)

\* the values the frame yields for r, which the iteration over its head item
\* gave: igetattr threads them through infer_stmts on its first path
Receive(f, r, ek) ==
    With(IF f.kind = "igetattr" /\ f.phase = "first"
         THEN infer_stmts(r.vals) ELSE r.vals, LAMBDA vs :
    With([f EXCEPT !.out = @ \o vs,
                   !.src = @ \o [i \in 1..Len(vs) |-> Head(f.todo).idx]], LAMBDA g :
        IF r.err = NoError THEN [g EXCEPT !.todo = Tail(@)]
        ELSE FrameRaise(g, r.err, ek)))

(***************************************************************************)
(* Super                                                                   *)
(***************************************************************************)
\* Super.__init__
Super(mro_pointer, mro_type, self_class, scope) ==
    [kind |-> "Super", type |-> mro_type, mro_pointer |-> mro_pointer,
     _class_based |-> FALSE, _self_class |-> self_class, _scope |-> scope]

\* getattr(value, '_proxied', None)
proxied_of(v) ==
    CASE v.kind = "Instance" -> ClassDef(v.proxied)
      [] v.kind \in {"UnboundMethod", "BoundMethod"} -> v.proxied
      [] OTHER -> None

\* list.index: the position of the first element equal to x
mro_index(s, x) == CHOOSE i \in 1..Len(s) : s[i] = x /\ \A j \in 1..(i - 1) : s[j] # x

\* super_mro that keeps the class of mro_pointer in its result
super_mro_inclusive(self) ==
    LET mro_type == IF self.type.kind = "ClassDef" THEN self.type
                    ELSE [kind |-> "ClassDef", name |-> self.type.proxied]
        m == mro(mro_type.name)
    IN  [res |-> IF self.mro_pointer.kind = "ClassDef"
                    /\ self.type.kind \in {"ClassDef", "Instance"}
                    /\ newstyle(mro_type.name) /\ m.err = NoError
                    /\ \E i \in 1..Len(m.vals) : m.vals[i] = self.mro_pointer.name
                 THEN Ok(SubSeq(m.vals,
                                CHOOSE i \in 1..Len(m.vals) : m.vals[i] = self.mro_pointer.name,
                                Len(m.vals)))
                 ELSE Raise(SuperError),
         class_based |-> self._class_based \/ self.type.kind = "ClassDef"]

\* Super.super_mro: the classes to search (by name) or the error raised, and
\* the value of self._class_based afterwards
super_mro(self) ==
    LET based == self.mro_pointer.kind = "ClassDef" /\ self.type.kind = "ClassDef"
        mro_type == IF self.type.kind = "ClassDef" THEN self.type
                    ELSE proxied_of(self.type)
        m == mro(mro_type.name)
        fail == [res |-> Raise(SuperError), class_based |-> self._class_based \/ based]
    IN  IF self.mro_pointer.kind # "ClassDef" THEN fail
        ELSE IF mro_type.kind \notin {"Instance", "ClassDef"} THEN fail
        ELSE IF ~newstyle(mro_type.name) THEN fail
        ELSE IF m.err # NoError
        THEN [res |-> Raise(m.err), class_based |-> self._class_based \/ based]
        ELSE IF \A i \in 1..Len(m.vals) : m.vals[i] # self.mro_pointer.name THEN fail
        ELSE [res |-> Ok(SubSeq(m.vals, mro_index(m.vals, self.mro_pointer.name) + 1,
                                Len(m.vals))),
              class_based |-> self._class_based \/ based]

\* the loop body with the rule for a classmethod scope left out
Super_wrap_noscope(self, inferred, cls) ==
    IF inferred.kind # "FunctionDef" THEN [call |-> FALSE, val |-> inferred]
    ELSE IF inferred.type = "classmethod"
    THEN [call |-> FALSE, val |-> BoundMethod(inferred, ClassDef(cls))]
    ELSE IF self._class_based \/ inferred.type = "staticmethod"
    THEN [call |-> FALSE, val |-> inferred]
    ELSE IF is_property(inferred) THEN [call |-> TRUE, val |-> inferred]
    ELSE [call |-> FALSE, val |-> BoundMethod(inferred, ClassDef(cls))]

\* Super.igetattr, the body of its inner loop: what is yielded for one
\* inferred declaration found in class cls
Super_wrap(self, inferred, cls) ==
    IF inferred.kind # "FunctionDef" THEN Yield(inferred)
    ELSE IF inferred.type = "classmethod" THEN Yield(BoundMethod(inferred, ClassDef(cls)))
    ELSE IF self._scope.type = "classmethod" /\ inferred.type = "method"
    THEN Yield(inferred)
    ELSE IF self._class_based \/ inferred.type = "staticmethod" THEN Yield(inferred)
    ELSE IF is_property(inferred) THEN YieldFrom(inferred)
    ELSE Yield(BoundMethod(inferred, ClassDef(cls)))

\* the inferred declarations of name in the classes of ms that declare it
RECURSIVE Super_found(_, _)
Super_found(ms, name) ==
    IF ms = <<>> THEN <<>>
    ELSE LET rest == Super_found(Tail(ms), name)
             here == IF locals(Head(ms), name) = <<>> THEN <<>>
                     ELSE infer_stmts(<<locals(Head(ms), name)[1]>>)
         IN  [i \in 1..Len(here) |-> [val |-> here[i], cls |-> Head(ms), idx |-> i]]
             \o [i \in 1..Len(rest) |-> [rest[i] EXCEPT !.idx = @ + Len(here)]]

declaring(ms, name) == {i \in 1..Len(ms) : locals(ms[i], name) # <<>>}

\* Super.igetattr that lets the errors of super_mro out as they are
Super_igetattr_unconverted(self, name) ==
    LET m == super_mro(self)
    IN  IF name \in SuperModel
        THEN [now |-> TRUE, res |-> Ok(<<Special(self, name)>>), todo |-> <<>>,
              pend |-> NoError, class_based |-> self._class_based]
        ELSE IF m.res.err # NoError
        THEN [now |-> TRUE, res |-> m.res, todo |-> <<>>,
              pend |-> NoError, class_based |-> m.class_based]
        ELSE [now |-> FALSE, res |-> Ok(<<>>), todo |-> Super_found(m.res.vals, name),
              pend |-> IF declaring(m.res.vals, name) = {}
                       THEN AttributeInferenceError ELSE NoError,
              class_based |-> m.class_based]

\* Super.igetattr up to its loop: [now, res, todo, pend, class_based]; a
\* result at once (a special attribute, an invalid super) or the loop to run
Super_igetattr(self, name) ==
    LET m == super_mro(self)
    IN  IF name \in SuperModel
        THEN [now |-> TRUE, res |-> Ok(<<Special(self, name)>>), todo |-> <<>>,
              pend |-> NoError, class_based |-> self._class_based]
        ELSE IF m.res.err \in {SuperError, MroError}
        THEN [now |-> TRUE, res |-> Raise(AttributeInferenceError), todo |-> <<>>,
              pend |-> NoError, class_based |-> m.class_based]
        ELSE [now |-> FALSE, res |-> Ok(<<>>), todo |-> Super_found(m.res.vals, name),
              pend |-> IF declaring(m.res.vals, name) = {}
                       THEN AttributeInferenceError ELSE NoError,
              class_based |-> m.class_based]

(***************************************************************************)
(* One step of the frame on top of the stack.                              *)
(***************************************************************************)
\* what the frame's loop body asks for its head item: a value at once or a call
ItemPlan(f, h, ps) ==
    With(Head(f.todo), LAMBDA item :
    With(IF f.kind = "super" THEN Super_wrap(f.self, item.val, item.cls)
         ELSE _wrap_attr(f.self, item.val), LAMBDA w :
        IF w.call THEN infer_call_result(w.val, f.self, f.ctx, h, ps)
        ELSE Now(Ok(<<w.val>>), f.ctx, h, ps)))

\* the consumer takes every value (a for loop, list()) or the first only (next())
Wanted(f) == f.todo # <<>> /\ ~(op.want = "first" /\ f.out # <<>>)

\* igetattr that starts the guard set anew with the pair it is entered for
LookupEnter_resetting ==
    /\ pc = "run" /\ stack # <<>> /\ Top.kind = "igetattr" /\ Top.phase = "enter"
    /\ \E ek \in ErrKinds, top \in {Top} :
        LET h1 == IF top.ctx = 0 THEN Append(heap, InferenceContext(paths)) ELSE heap
            ps1 == IF top.ctx = 0 THEN Append(paths, {}) ELSE paths
            cid == IF top.ctx = 0 THEN Len(h1) ELSE top.ctx
            key == <<top.self.proxied, top.name>>
            p == push(ps1, h1[cid], key)
            f == [top EXCEPT !.ctx = cid, !.reentered = key \in ps1[h1[cid].path]]
        IN  /\ heap' = h1
            /\ paths' = [ps1 EXCEPT ![h1[cid].path] = {key}]
            /\ stack' = SetTop(igetattr_enter(f, p.visited, ek))
    /\ UNCHANGED <<sup, op, pc, result>>

\* an Instance.igetattr is entered: the context is created if absent, the
\* pair is pushed and getattr is called
LookupEnter ==
    /\ pc = "run" /\ stack # <<>> /\ Top.kind = "igetattr" /\ Top.phase = "enter"
    /\ \E ek \in ErrKinds, top \in {Top} :
        LET h1 == IF top.ctx = 0 THEN Append(heap, InferenceContext(paths)) ELSE heap
            ps1 == IF top.ctx = 0 THEN Append(paths, {}) ELSE paths
            cid == IF top.ctx = 0 THEN Len(h1) ELSE top.ctx
            key == <<top.self.proxied, top.name>>
            p == push(ps1, h1[cid], key)
            f == [top EXCEPT !.ctx = cid, !.reentered = key \in ps1[h1[cid].path]]
        IN  /\ heap' = h1
            /\ paths' = p.paths
            /\ stack' = SetTop(igetattr_enter(f, p.visited, ek))
    /\ UNCHANGED <<sup, op, pc, result>>

\* the loop body yields at once for the head item
FrameItem ==
    /\ pc = "run" /\ stack # <<>> /\ Running(Top) /\ Wanted(Top)
    /\ \E ek \in ErrKinds, plan \in {ItemPlan(Top, heap, paths)} :
            /\ plan.now
            /\ stack' = SetTop(Receive(Top, plan.res, ek))
            /\ heap' = SubSeq(plan.heap, 1, Len(heap))
            /\ paths' = SubSeq(plan.paths, 1, Len(paths))
    /\ UNCHANGED <<sup, op, pc, result>>

\* the loop body calls a method that looks an attribute up: a nested igetattr
FrameCall ==
    /\ pc = "run" /\ stack # <<>> /\ Running(Top) /\ Wanted(Top)
    /\ Len(stack) < MaxDepth
    /\ \E plan \in {ItemPlan(Top, heap, paths)} :
           /\ ~plan.now
           /\ stack' = Append(stack, Frame("igetattr", plan.target, plan.name,
                                           plan.ctx, "enter", <<>>, NoError))
           /\ heap' = plan.heap
           /\ paths' = plan.paths
    /\ UNCHANGED <<sup, op, pc, result>>

\* a nested igetattr has ended: the frame that called it goes on
FrameReturn ==
    /\ pc = "run" /\ Len(stack) >= 2 /\ Top.phase = "done"
    /\ \E ek \in ErrKinds :
        stack' = Append(SubSeq(stack, 1, Len(stack) - 2),
                        Receive(stack[Len(stack) - 1],
                                [vals |-> Top.out, err |-> Top.err], ek))
    /\ UNCHANGED <<heap, paths, sup, op, pc, result>>

\* nothing is left to iterate over, or the consumer has what it wants
FrameEnd ==
    /\ pc = "run" /\ stack # <<>> /\ Running(Top) /\ ~Wanted(Top)
    /\ \E ek \in ErrKinds :
        stack' = SetTop(IF Top.todo = <<>> /\ Top.pend # NoError
                           /\ ~(op.want = "first" /\ Top.out # <<>>)
                        THEN FrameRaise(Top, Top.pend, ek)
                        ELSE Done(Top, NoError))
    /\ UNCHANGED <<heap, paths, sup, op, pc, result>>

Machine == LookupEnter \/ FrameItem \/ FrameCall \/ FrameReturn \/ FrameEnd

(***************************************************************************)
(* Top-level calls.                                                        *)
(***************************************************************************)
NoResult == [vals |-> <<>>, err |-> NoError, truth |-> "-"]
Returned(r) == [vals |-> r.vals, err |-> r.err, truth |-> "-"]

\* what outlives a top-level call: the caller's own context object
Collect(h) == <<h[1]>>

\* the caller hands over no context (0) or its own (1)
CtxRefs == {0, 1}
CtxOk(cref) == cref = 0 \/ Cardinality(paths[1]) <= MaxVisited

SeqUpTo(S, n) == UNION {[1..k -> S] : k \in 0..n}

\* the (class, name) pairs looked up from the top level
LookupCases ==
    {<<"A", "x">>, <<"C", "x">>, <<"B", "y">>, <<"A", "m">>, <<"B", "m">>,
     <<"A", "p">>, <<"B", "q">>, <<"C", "w">>, <<"A", "v">>, <<"A", "lam">>,
     <<"C", "lam">>, <<"A", "cm">>, <<"A", "sm">>, <<"D", "size">>,
     <<"A", "zz">>, <<"Old", "zz">>, <<"A", "__class__">>}

\* those of them looked up on the caller's own context
CtxCases ==
    {<<"A", "x">>, <<"A", "m">>, <<"A", "p">>, <<"B", "q">>, <<"A", "zz">>,
     <<"D", "size">>}

\* the attribute names asked of an instance through getattr
Names ==
    {"x", "y", "m", "cm", "sm", "p", "q", "w", "v", "lam", "size", "zz",
     "__class__", "__bool__", "__len__", "__getitem__"}

\* the raw attributes handed to _wrap_attr
AttrPool ==
    {UnboundMethod(F_A_m), UnboundMethod(F_B_m), UnboundMethod(F_A_v),
     UnboundMethod(F_C_w), UnboundMethod(F_A_p), BoundMethod(F_A_cm, ClassDef("A")),
     BoundMethod(F_A_v, Instance("D")), LamSelf, LamOther, LamFree, Const(1),
     F_A_sm, ClassDef("B")}

\* the caller is done with the result of a call; what the call created dies
Release ==
    /\ pc = "done"
    /\ pc' = "idle"
    /\ op' = [kind |-> "none"]
    /\ result' = NoResult
    /\ heap' = Collect(heap)
    /\ paths' = Collect(paths)
    /\ UNCHANGED <<sup, stack>>

\* Instance(c).getattr(n, lookupclass=lc)
Getattr(c, n, lc) ==
    /\ pc = "idle"
    /\ op' = [kind |-> "getattr", self |-> Instance(c), name |-> n, lookupclass |-> lc]
    /\ result' = Returned(BaseInstance_getattr(Instance(c), n, lc))
    /\ pc' = "done"
    /\ UNCHANGED <<heap, paths, sup, stack>>

\* Instance(c).igetattr(n, context), consumed to its end
Igetattr(c, n, cref) ==
    /\ pc = "idle" /\ CtxOk(cref)
    /\ op' = [kind |-> "igetattr", self |-> Instance(c), name |-> n, ctx |-> cref,
              want |-> "all"]
    /\ stack' = <<Frame("igetattr", Instance(c), n, cref, "enter", <<>>, NoError)>>
    /\ pc' = "run"
    /\ result' = NoResult
    /\ UNCHANGED <<heap, paths, sup>>

\* Instance(c)._wrap_attr(attrs, context), consumed to its end
WrapAttr(c, attrs, cref) ==
    /\ pc = "idle" /\ CtxOk(cref)
    /\ op' = [kind |-> "_wrap_attr", self |-> Instance(c), attrs |-> attrs,
              ctx |-> cref, want |-> "all"]
    /\ stack' = <<Frame("wrap", Instance(c), "", cref, "wrap", Items(attrs, ""), NoError)>>
    /\ pc' = "run"
    /\ result' = NoResult
    /\ UNCHANGED <<heap, paths, sup>>

\* a generator that has run to its end with result r
Finished(kind, self, name, cid, r) ==
    [Frame(kind, self, name, cid, "done", <<>>, NoError)
       EXCEPT !.out = r.vals, !.err = r.err, !.src = [i \in 1..Len(r.vals) |-> 0]]

\* the functions called as methods, the objects they are bound to, the callers
MethFuncs ==
    {F_A_m, F_A_cm, F_B_getitem, F_A_p, F_B_q, F_D_size, F_object_new, F_D_bool,
     F_M_getitem}
Receivers == {Instance("A"), ClassDef("B")}
Meths ==
    {UnboundMethod(f) : f \in MethFuncs}
        \cup {BoundMethod(f, x) : f \in MethFuncs, x \in Receivers}
Callers == {Call(<<>>), Call(<< <<ClassDef("A"), Uninferable>> >>), Instance("C")}

\* meth.infer_call_result(caller, context), consumed to its end
MethCall(meth, caller, cref) ==
    /\ pc = "idle" /\ CtxOk(cref)
    /\ \E plan \in {infer_call_result(meth, caller, cref, heap, paths)} :
        /\ op' = [kind |-> "infer_call_result", meth |-> meth, caller |-> caller,
                  ctx |-> cref, now |-> plan.now, want |-> "all",
                  before |-> [heap |-> heap, paths |-> paths]]
        /\ stack' = <<IF plan.now THEN Finished("call", meth, "", plan.ctx, plan.res)
                      ELSE Frame("igetattr", plan.target, plan.name, plan.ctx,
                                 "enter", <<>>, NoError)>>
        /\ heap' = plan.heap
        /\ paths' = plan.paths
    /\ pc' = "run"
    /\ result' = NoResult
    /\ UNCHANGED sup

\* the Super objects looked at: super(mro_pointer, type) called in scope
SuperPointers ==
    {ClassDef("B"), ClassDef("C"), ClassDef("object"), ClassDef("D"), Instance("A")}
SuperTypes ==
    {Instance("C"), ClassDef("C"), Instance("M"), Instance("Old"), Instance("Bad"),
     Const(1)}
SuperScopes == {F_A_m, F_A_cm}
SuperNames == {"m", "cm", "sm", "v", "x", "q", "w", "zz", "__class__", "__self__"}

\* Super(mro_pointer, mro_type, self_class, scope)
NewSuper(mro_pointer, mro_type, scope) ==
    /\ pc = "idle"
    /\ sup' = Super(mro_pointer, mro_type, ClassDef("C"), scope)
    /\ sup' # sup
    /\ UNCHANGED <<heap, paths, op, pc, stack, result>>

\* sup.super_mro()
SuperMro ==
    /\ pc = "idle"
    /\ op' = [kind |-> "super_mro", self |-> sup]
    /\ result' = Returned(super_mro(sup).res)
    /\ sup' = [sup EXCEPT !._class_based = super_mro(sup).class_based]
    /\ pc' = "done"
    /\ UNCHANGED <<heap, paths, stack>>

\* sup.igetattr(name, context) consumed to its end, or sup.getattr(name,
\* context), which is list(sup.igetattr(name, context))
SuperLookup(kind, name, cref) ==
    /\ pc = "idle" /\ CtxOk(cref)
    /\ \E r \in {Super_igetattr(sup, name)} :
        LET self == [sup EXCEPT !._class_based = r.class_based]
        IN  /\ sup' = self
            /\ op' = [kind |-> kind, self |-> sup, name |-> name, ctx |-> cref,
                      want |-> "all"]
            /\ stack' = <<IF r.now THEN Finished("super", self, name, cref, r.res)
                          ELSE Frame("super", self, name, cref, "super", r.todo, r.pend)>>
    /\ pc' = "run"
    /\ result' = NoResult
    /\ UNCHANGED <<heap, paths>>

\* the generator of the top-level call has ended: the caller has its values
OpReturn ==
    /\ pc = "run" /\ Len(stack) = 1 /\ Top.phase = "done"
    /\ op.kind \in {"igetattr", "_wrap_attr", "Super.igetattr", "Super.getattr",
                    "infer_call_result"}
    /\ result' = Returned([vals |-> Top.out, err |-> Top.err])
    /\ pc' = "done"
    /\ stack' = <<>>
    /\ UNCHANGED <<heap, paths, sup, op>>

(***************************************************************************)
(* Instance.bool_value and _infer_method_result_truth.                     *)
(***************************************************************************)
\* hasattr(meth, 'infer_call_result'), of the values a lookup of a special
\* method gives
has_infer_call_result(meth) == meth.kind \in {"UnboundMethod", "BoundMethod", "FunctionDef"}

\* meth.callable() of a method or function
callable(meth) == meth.kind \in {"UnboundMethod", "BoundMethod", "FunctionDef"}

\* inferred.bool_value() of the first value of a call result
bool_value_of(value) ==
    IF value = Uninferable THEN "Uninferable"
    ELSE IF value.kind = "Const" THEN (IF value.value # 0 THEN "True" ELSE "False")
    ELSE "True"

\* _infer_method_result_truth once next(instance.igetattr(...), None) has
\* given lk: the exception that leaves it, the method to call, or the answer
truth_method(lk) ==
    IF lk.err # NoError THEN [err |-> lk.err, call |-> FALSE, truth |-> "-"]
    ELSE IF lk.vals = <<>> THEN [err |-> NoError, call |-> FALSE, truth |-> "Uninferable"]
    ELSE IF ~has_infer_call_result(lk.vals[1])
    THEN [err |-> NoError, call |-> FALSE, truth |-> "Uninferable"]
    ELSE IF ~callable(lk.vals[1])
    THEN [err |-> NoError, call |-> FALSE, truth |-> "Uninferable"]
    ELSE [err |-> NoError, call |-> TRUE, truth |-> "-"]

\* _infer_method_result_truth, its loop over the call result r
truth_result(r) ==
    IF r.err # NoError THEN [err |-> r.err, truth |-> "-"]
    ELSE IF r.vals = <<>> THEN [err |-> NoError, truth |-> "Uninferable"]
    ELSE [err |-> NoError, truth |-> bool_value_of(r.vals[1])]

\* bool_value that falls back on AttributeInferenceError only
bool_value_absorbs_attribute_only(e) == e = AttributeInferenceError

\* the except clauses of bool_value
bool_value_absorbs(e) == e \in {InferenceError, AttributeInferenceError}

\* a probe of bool_value has ended with exception err or with answer truth
BoolSettle(err, truth) ==
    IF err = NoError
    THEN /\ result' = [vals |-> <<>>, err |-> NoError, truth |-> truth]
         /\ pc' = "done" /\ stack' = <<>> /\ UNCHANGED op
    ELSE IF ~bool_value_absorbs(err)
    THEN /\ result' = [vals |-> <<>>, err |-> err, truth |-> "-"]
         /\ pc' = "done" /\ stack' = <<>> /\ UNCHANGED op
    ELSE IF op.probe = BOOL_SPECIAL_METHOD
    THEN /\ op' = [op EXCEPT !.probe = "__len__", !.stage = "lookup"]
         /\ stack' = <<Frame("igetattr", op.self, "__len__", op.ctx, "enter", <<>>, NoError)>>
         /\ UNCHANGED <<pc, result>>
    ELSE /\ result' = [vals |-> <<>>, err |-> NoError, truth |-> "True"]
         /\ pc' = "done" /\ stack' = <<>> /\ UNCHANGED op

\* Instance(c).bool_value(), up to the first lookup
BoolValue(c) ==
    /\ pc = "idle"
    /\ heap' = Append(heap, [InferenceContext(paths) EXCEPT
                                !.callcontext = CallContext(<<Instance(c)>>)])
    /\ paths' = Append(paths, {})
    /\ op' = [kind |-> "bool_value", self |-> Instance(c), probe |-> BOOL_SPECIAL_METHOD,
              stage |-> "lookup", ctx |-> Len(heap) + 1, want |-> "first"]
    /\ stack' = <<Frame("igetattr", Instance(c), BOOL_SPECIAL_METHOD, Len(heap) + 1,
                        "enter", <<>>, NoError)>>
    /\ pc' = "run"
    /\ result' = NoResult
    /\ UNCHANGED sup

\* the lookup of the special method has given its first value, or ended
BoolMethod ==
    /\ pc = "run" /\ Len(stack) = 1 /\ Top.phase = "done"
    /\ op.kind = "bool_value" /\ op.stage = "lookup"
    /\ \E m \in {truth_method([vals |-> Top.out, err |-> Top.err])} :
        IF ~m.call THEN BoolSettle(m.err, m.truth) /\ UNCHANGED <<heap, paths>>
        ELSE \E plan \in {infer_call_result(Top.out[1], op.self, op.ctx, heap, paths)} :
            IF plan.now
            THEN /\ BoolSettle(truth_result(plan.res).err, truth_result(plan.res).truth)
                 /\ UNCHANGED <<heap, paths>>
            ELSE /\ stack' = <<Frame("igetattr", plan.target, plan.name, plan.ctx,
                                      "enter", <<>>, NoError)>>
                 /\ op' = [op EXCEPT !.stage = "call"]
                 /\ heap' = plan.heap
                 /\ paths' = plan.paths
                 /\ UNCHANGED <<pc, result>>
    /\ UNCHANGED sup

\* the call of the special method has given its first value, or ended
BoolResult ==
    /\ pc = "run" /\ Len(stack) = 1 /\ Top.phase = "done"
    /\ op.kind = "bool_value" /\ op.stage = "call"
    /\ \E t \in {truth_result([vals |-> Top.out, err |-> Top.err])} :
          BoolSettle(t.err, t.truth)
    /\ UNCHANGED <<heap, paths, sup>>

(***************************************************************************)
(* Instance.getitem                                                        *)
(***************************************************************************)
\* getitem up to the lookup of __getitem__: the object new_context, made by
\* context.clone() or, without a context, by InferenceContext(), with the
\* call context and the bound node set on it
getitem_new_context(self, index, cref, h, ps) ==
    [(IF cref = 0 THEN InferenceContext(ps) ELSE h[cref])
        EXCEPT !.callcontext = CallContext(<<index>>), !.boundnode = self]

\* the statements of getitem after next(self.igetattr('__getitem__', ...))
\* has given lk: the exception raised, or the method to call
getitem_method(lk) ==
    IF lk.err # NoError THEN [err |-> lk.err, call |-> FALSE]
    ELSE IF lk.vals = <<>> THEN [err |-> StopIteration, call |-> FALSE]
    ELSE IF lk.vals[1].kind # "BoundMethod" THEN [err |-> InferenceError, call |-> FALSE]
    ELSE [err |-> NoError, call |-> TRUE]

\* return next(method.infer_call_result(self, new_context)) with the
\* StopIteration of next re-raised as InferenceError
getitem_result(r) ==
    IF r.vals # <<>> THEN Ok(<<r.vals[1]>>)
    ELSE IF r.err = NoError THEN Raise(InferenceError)
    ELSE Raise(r.err)

\* Instance(c).getitem(index, context), up to the lookup
Getitem(c, index, cref) ==
    /\ pc = "idle" /\ CtxOk(cref)
    /\ heap' = Append(heap, getitem_new_context(Instance(c), index, cref, heap, paths))
    /\ paths' = IF cref = 0 THEN Append(paths, {}) ELSE paths
    /\ op' = [kind |-> "getitem", self |-> Instance(c), index |-> index, ctx |-> cref,
              context |-> IF cref = 0 THEN Len(heap) + 1 ELSE cref,
              new_context |-> Len(heap) + 1, stage |-> "lookup", want |-> "first",
              visited |-> IF cref = 0 THEN {} ELSE paths[heap[cref].path]]
    /\ stack' = <<Frame("igetattr", Instance(c), "__getitem__",
                        IF cref = 0 THEN Len(heap) + 1 ELSE cref, "enter", <<>>, NoError)>>
    /\ pc' = "run"
    /\ result' = NoResult
    /\ UNCHANGED sup

\* the lookup of __getitem__ has given its first value, or ended
GetitemMethod ==
    /\ pc = "run" /\ Len(stack) = 1 /\ Top.phase = "done"
    /\ op.kind = "getitem" /\ op.stage = "lookup"
    /\ \E m \in {getitem_method([vals |-> Top.out, err |-> Top.err])} :
        IF ~m.call
        THEN /\ result' = Returned(Raise(m.err))
             /\ pc' = "done" /\ stack' = <<>>
             /\ UNCHANGED <<heap, paths, op>>
        ELSE \E plan \in {infer_call_result(Top.out[1], op.self, op.new_context,
                                             heap, paths)} :
            IF plan.now
            THEN /\ result' = Returned(getitem_result(plan.res))
                 /\ pc' = "done" /\ stack' = <<>>
                 /\ heap' = plan.heap /\ paths' = plan.paths
                 /\ UNCHANGED op
            ELSE /\ stack' = <<Frame("igetattr", plan.target, plan.name, plan.ctx,
                                      "enter", <<>>, NoError)>>
                 /\ op' = [op EXCEPT !.stage = "call"]
                 /\ heap' = plan.heap /\ paths' = plan.paths
                 /\ UNCHANGED <<pc, result>>
    /\ UNCHANGED sup

\* the call of __getitem__ has given its first value, or ended
GetitemResult ==
    /\ pc = "run" /\ Len(stack) = 1 /\ Top.phase = "done"
    /\ op.kind = "getitem" /\ op.stage = "call"
    /\ result' = Returned(getitem_result([vals |-> Top.out, err |-> Top.err]))
    /\ pc' = "done" /\ stack' = <<>>
    /\ UNCHANGED <<heap, paths, sup, op>>

(***************************************************************************)
(* Specifications.                                                         *)
(***************************************************************************)
\* the caller's context: created by InferenceContext(), its fields set or not
Init ==
    /\ \E c \in {[path |-> 1, callcontext |-> None, boundnode |-> None],
                  [path |-> 1, callcontext |-> CallContext(<<Const(42)>>),
                   boundnode |-> Instance("D")]} : heap = <<c>>
    /\ paths = <<{}>>
    /\ sup = Super(ClassDef("B"), Instance("C"), ClassDef("C"), F_A_m)
    /\ op = [kind |-> "none"]
    /\ pc = "idle"
    /\ stack = <<>>
    /\ result = NoResult

\* BaseInstance.getattr alone
NextAttr ==
    \/ \E c \in Classes, n \in Names, lc \in BOOLEAN : Getattr(c, n, lc)
    \/ Release
SpecAttr == Init /\ [][NextAttr]_vars

\* Instance.igetattr on a context the caller keeps
Next ==
    \/ \E cn \in LookupCases : Igetattr(cn[1], cn[2], 0)
    \/ \E cn \in CtxCases : Igetattr(cn[1], cn[2], 1)
    \/ Machine
    \/ OpReturn
    \/ Release
Spec == Init /\ [][Next]_vars
\* a call that has started runs on: nothing else is scheduled meanwhile
FairSpec == Spec /\ WF_vars(Machine \/ OpReturn)

\* _wrap_attr called on its own
NextWrap ==
    \/ \E attrs \in SeqUpTo(AttrPool, MaxAttrs), cref \in CtxRefs :
          WrapAttr("C", attrs, cref)
    \/ Machine
    \/ OpReturn
    \/ Release
SpecWrap == Init /\ [][NextWrap]_vars

\* Super objects and the lookups on them
NextSuper ==
    \/ \E mp \in SuperPointers, mt \in SuperTypes, sc \in SuperScopes : NewSuper(mp, mt, sc)
    \/ SuperMro
    \/ \E kind \in {"Super.igetattr", "Super.getattr"}, n \in SuperNames, cref \in CtxRefs :
          SuperLookup(kind, n, cref)
    \/ Machine
    \/ OpReturn
    \/ Release
SpecSuper == Init /\ [][NextSuper]_vars

\* the truth value of instances
NextBool ==
    \/ \E c \in Classes : BoolValue(c)
    \/ BoolMethod
    \/ BoolResult
    \/ Machine
    \/ Release
SpecBool == Init /\ [][NextBool]_vars

\* calls of bound and unbound methods
NextMeth ==
    \/ \E meth \in Meths, caller \in Callers, cref \in CtxRefs : MethCall(meth, caller, cref)
    \/ Machine
    \/ OpReturn
    \/ Release
SpecMeth == Init /\ [][NextMeth]_vars

\* the values indexed with
Indices == {Const(0), Const(7)}

\* subscripts of instances, on contexts on which __getitem__ may have been
\* looked up before
NextItem ==
    \/ \E c \in Classes, index \in Indices, cref \in CtxRefs : Getitem(c, index, cref)
    \/ \E c \in {"B", "D"} : Igetattr(c, "__getitem__", 1)
    \/ GetitemMethod
    \/ GetitemResult
    \/ Machine
    \/ OpReturn
    \/ Release
SpecItem == Init /\ [][NextItem]_vars

\* every operation that takes a context, on a context the caller keeps from
\* one call to the next
NextGuard ==
    \/ \E cn \in CtxCases, cref \in CtxRefs : Igetattr(cn[1], cn[2], cref)
    \/ \E c \in {"B", "D"} : Igetattr(c, "__getitem__", 1)
    \/ \E c \in {"A", "B"}, n \in {"x", "zz"}, lc \in BOOLEAN : Getattr(c, n, lc)
    \/ \E a \in AttrPool, cref \in CtxRefs : WrapAttr("C", <<a>>, cref)
    \/ \E meth \in Meths, caller \in Callers, cref \in CtxRefs : MethCall(meth, caller, cref)
    \/ \E c \in Classes, index \in Indices, cref \in CtxRefs : Getitem(c, index, cref)
    \/ \E c \in Classes : BoolValue(c)
    \/ BoolMethod
    \/ BoolResult
    \/ GetitemMethod
    \/ GetitemResult
    \/ Machine
    \/ OpReturn
    \/ Release
SpecGuard == Init /\ [][NextGuard]_vars

(***************************************************************************)
(* Properties.                                                             *)
(***************************************************************************)
\* the top-level generator has ended and its caller has not yet gone on
Ended(kind) ==
    pc = "run" /\ Len(stack) = 1 /\ Top.phase = "done" /\ op.kind = kind

\* the part of out that came from item i of the iterated sequence
Produced(f, i) ==
    LET RECURSIVE Sel(_)
        Sel(k) == IF k > Len(f.out) THEN <<>>
                  ELSE (IF f.src[k] = i THEN <<f.out[k]>> ELSE <<>>) \o Sel(k + 1)
    IN  Sel(1)

\* C1: when a class has instance-level and class-level declarations of a
\* name, getattr with lookupclass returns the instance-level ones followed by
\* the class-level ones, all of them and in their order; without lookupclass
\* it returns exactly the instance-level ones.
C1_GetattrConcatenates ==
    (pc = "done" /\ op.kind = "getattr"
        /\ instance_attr(op.self.proxied, op.name).err = NoError
        /\ ClassDef_getattr(op.self.proxied, op.name).err = NoError)
    => /\ result.err = NoError
       /\ result.vals = IF op.lookupclass
                        THEN instance_attr(op.self.proxied, op.name).vals
                             \o ClassDef_getattr(op.self.proxied, op.name).vals
                        ELSE instance_attr(op.self.proxied, op.name).vals

C1_Witness ==
    /\ pc = "done" /\ op.kind = "getattr" /\ op.lookupclass
    /\ op.self = Instance("C") /\ op.name = "x"
    /\ result.vals = <<AssignAttr(Const(10)), AssignAttr(Const(11)),
                       AssignName(Const(5)), AssignName(Const(1))>>

\* a name declared neither at instance level nor at class level, and not special
Undeclared(c, n) ==
    /\ instance_attr(c, n).err # NoError
    /\ ClassDef_getattr(c, n).err # NoError
    /\ n \notin InstanceModel

\* C2: igetattr of an undeclared name, on a context that has not visited the
\* pair, yields nothing and fails with InferenceError, after getattr and then
\* the class's igetattr were tried; no igetattr ends with
\* AttributeInferenceError.
C2_UndeclaredFails ==
    /\ \A i \in 1..Len(stack) :
          (stack[i].kind = "igetattr" /\ stack[i].phase = "done")
          => stack[i].err # AttributeInferenceError
    /\ (Ended("igetattr") /\ Undeclared(op.self.proxied, op.name) /\ ~Top.reentered)
       => /\ Top.out = <<>>
          /\ Top.err = InferenceError
          /\ Top.log = <<"getattr", "class_igetattr">>
    /\ (pc = "done" /\ op.kind = "igetattr" /\ op.ctx = 0
           /\ Undeclared(op.self.proxied, op.name))
       => (result.vals = <<>> /\ result.err = InferenceError)

C2_Witness ==
    /\ pc = "done" /\ op.kind = "igetattr" /\ op.ctx = 0
    /\ op.self = Instance("A") /\ op.name = "zz"
    /\ result.err = InferenceError

\* C3: on a shared context every igetattr call ends, also when resolving the
\* attribute leads back to the same (class, name); the re-entered lookup
\* yields nothing and looks nothing up.
C3_Terminates ==
    /\ (pc = "run") ~> (pc = "done")
    /\ [](\A i \in 1..Len(stack) :
            (stack[i].reentered /\ stack[i].phase # "enter")
            => /\ stack[i].phase = "done"
               /\ stack[i].out = <<>>
               /\ stack[i].log = <<>>
               /\ stack[i].err = NoError)
    /\ [](Len(stack) < MaxDepth)

\* B.q -> D.r -> M.s -> B.q: the fourth lookup is the first one again
C3_Witness ==
    /\ Len(stack) = 4
    /\ stack[1].self = Instance("B") /\ stack[1].name = "q"
    /\ Top.self = Instance("B") /\ Top.name = "q"
    /\ Top.reentered /\ Top.phase = "done" /\ Top.out = <<>>

\* a function one of whose decorator names is in the exact allow-list, or has
\* its last dotted component in the heuristic list
PropertyLike(f) ==
    \E d \in f.decorators :
        /\ d # Uninferable
        /\ \/ d \in {QName(<<"builtins", "property">>), QName(<<"abc", "abstractproperty">>)}
           \/ d.parts[Len(d.parts)] \in POSSIBLE_PROPERTIES

\* objects that are instances of UnboundMethod (BoundMethod is a subclass)
IsMethod(a) == a.kind \in {"UnboundMethod", "BoundMethod"}
IsClassLambda(a) ==
    a.kind = "Lambda" /\ a.inclass /\ a.args # <<>> /\ a.args[1] = "self"

\* C7: of the attributes _wrap_attr receives on an instance, a property-like
\* method is replaced by the values of its call result and never yielded as
\* a BoundMethod; any other method is yielded as a BoundMethod bound to the
\* instance; a lambda is bound to the instance only when declared in a class
\* body with a first parameter named self; everything else is yielded as it
\* is; the original order is kept.
C7_WrapAttr ==
    (Ended("_wrap_attr") /\ Top.err = NoError)
    => /\ \A k \in 1..(Len(Top.src) - 1) : Top.src[k] <= Top.src[k + 1]
       /\ \A i \in 1..Len(op.attrs) :
            LET a == op.attrs[i]
                got == Produced(Top, i)
                call == infer_call_result(a, op.self, op.ctx, heap, paths)
            IN  IF IsMethod(a) /\ PropertyLike(a.proxied)
                THEN /\ \A k \in 1..Len(got) :
                          ~(got[k].kind = "BoundMethod" /\ got[k].proxied = a.proxied)
                     /\ call.now => got = call.res.vals
                ELSE IF IsMethod(a) THEN got = <<BoundMethod(a.proxied, op.self)>>
                ELSE IF IsClassLambda(a) THEN got = <<BoundMethod(a, op.self)>>
                ELSE got = <<a>>

C7_Witness ==
    /\ Ended("_wrap_attr")
    /\ op.attrs = <<UnboundMethod(F_C_w), UnboundMethod(F_A_m)>>
    /\ Top.out = <<Const(7), BoundMethod(F_A_m, Instance("C"))>>

\* the class whose MRO a super object searches ("" when it has none)
TargetOf(s) ==
    IF s.type.kind = "ClassDef" THEN s.type.name
    ELSE IF s.type.kind = "Instance" THEN s.type.proxied
    ELSE ""

\* mro_pointer is a class, type a class or an instance, the target new-style
\* with an MRO that contains mro_pointer
WellFormed(s) ==
    /\ s.mro_pointer.kind = "ClassDef"
    /\ s.type.kind \in {"ClassDef", "Instance"}
    /\ newstyle(TargetOf(s))
    /\ mro(TargetOf(s)).err = NoError
    /\ \E i \in 1..Len(mro(TargetOf(s)).vals) :
          mro(TargetOf(s)).vals[i] = s.mro_pointer.name

\* the position of mro_pointer in the target's MRO
PointerAt(s) ==
    CHOOSE i \in 1..Len(mro(TargetOf(s)).vals) :
        mro(TargetOf(s)).vals[i] = s.mro_pointer.name

SuperKinds == {"Super.igetattr", "Super.getattr"}

\* C4: super_mro() of a well-formed Super returns exactly the classes of the
\* target's MRO that come strictly after mro_pointer, in MRO order;
\* mro_pointer and what precedes it are not in the result.
C4_SuperMroSlice ==
    (pc = "done" /\ op.kind = "super_mro" /\ WellFormed(op.self))
    => LET m == mro(TargetOf(op.self)).vals
           k == PointerAt(op.self)
       IN  /\ result.err = NoError
           /\ Len(result.vals) = Len(m) - k
           /\ \A j \in 1..Len(result.vals) : result.vals[j] = m[k + j]
           /\ \A j \in 1..k : \A i \in 1..Len(result.vals) : result.vals[i] # m[j]

C4_Witness ==
    /\ pc = "done" /\ op.kind = "super_mro"
    /\ op.self.mro_pointer = ClassDef("B") /\ op.self.type = Instance("C")
    /\ result.vals = <<"A", "object">> /\ result.err = NoError

\* C5 as stated: on a malformed Super, igetattr and getattr fail with
\* AttributeInferenceError for every attribute name and yield no value.
C5_EveryNameFails ==
    (pc = "done" /\ op.kind \in SuperKinds /\ ~WellFormed(op.self))
    => (result.err = AttributeInferenceError /\ result.vals = <<>>)

\* C5: on a malformed Super, igetattr and getattr fail with
\* AttributeInferenceError and yield no value for every name that is not a
\* special attribute of the super object; a special attribute is yielded
\* without the super call being validated.  SuperError and MroError never
\* leave igetattr or getattr.
C5_MalformedFails ==
    /\ (pc = "done" /\ op.kind \in SuperKinds /\ ~WellFormed(op.self))
       => IF op.name \in {"__thisclass__", "__self__", "__class__"}
          THEN result.err = NoError /\ result.vals = <<Special(op.self, op.name)>>
          ELSE result.err = AttributeInferenceError /\ result.vals = <<>>
    /\ (pc = "done" /\ op.kind \in SuperKinds) => result.err \notin {SuperError, MroError}
    /\ \A i \in 1..Len(stack) : stack[i].err \notin {SuperError, MroError}

C5_Witness ==
    /\ pc = "done" /\ op.kind = "Super.igetattr" /\ op.name = "m"
    /\ op.self.mro_pointer = ClassDef("D") /\ op.self.type = Instance("C")
    /\ result.err = AttributeInferenceError /\ result.vals = <<>>

\* the inferred declarations of name in the classes of the MRO after
\* mro_pointer, in MRO order, each with the class that declares it
RECURSIVE Declarations(_, _, _)
Declarations(m, k, name) ==
    IF k > Len(m) THEN <<>>
    ELSE (IF locals(m[k], name) = <<>> THEN <<>>
          ELSE LET vs == infer(locals(m[k], name)[1])
               IN  [i \in 1..Len(vs) |-> [val |-> vs[i], cls |-> m[k]]])
         \o Declarations(m, k + 1, name)

\* C9: Super.igetattr of a non-special name on a well-formed Super walks the
\* classes after mro_pointer in MRO order and maps each inferred declaration
\* by the first rule that matches: not a function -> unchanged; classmethod
\* -> BoundMethod of the declaring class; method when the super call is in a
\* classmethod -> unchanged; class-based super or staticmethod -> unchanged;
\* property-like -> its call result; otherwise BoundMethod of the declaring
\* class.  When no class declares the name it fails with
\* AttributeInferenceError.
C9_SuperTable ==
    (pc = "run" /\ Len(stack) = 1 /\ Top.phase = "done" /\ op.kind \in SuperKinds
        /\ WellFormed(op.self) /\ op.name \notin {"__thisclass__", "__self__", "__class__"})
    => LET ds == Declarations(mro(TargetOf(op.self)).vals, PointerAt(op.self) + 1, op.name)
       IN  IF ds = <<>> THEN Top.err = AttributeInferenceError /\ Top.out = <<>>
           ELSE /\ Top.err # AttributeInferenceError
                /\ \A k \in 1..(Len(Top.src) - 1) : Top.src[k] <= Top.src[k + 1]
                /\ \A k \in 1..Len(Top.src) : Top.src[k] \in 1..Len(ds)
                /\ Top.err = NoError =>
                   \A i \in 1..Len(ds) :
                     LET f == ds[i].val
                         got == Produced(Top, i)
                         call == infer_call_result(f, Top.self, op.ctx, heap, paths)
                     IN  IF f.kind # "FunctionDef" THEN got = <<f>>
                         ELSE IF f.type = "classmethod"
                         THEN got = <<BoundMethod(f, ClassDef(ds[i].cls))>>
                         ELSE IF op.self._scope.type = "classmethod" /\ f.type = "method"
                         THEN got = <<f>>
                         ELSE IF op.self.type.kind = "ClassDef" \/ f.type = "staticmethod"
                         THEN got = <<f>>
                         ELSE IF PropertyLike(f) THEN call.now => got = call.res.vals
                         ELSE got = <<BoundMethod(f, ClassDef(ds[i].cls))>>

C9_Witness ==
    /\ pc = "run" /\ Len(stack) = 1 /\ Top.phase = "done" /\ op.kind = "Super.igetattr"
    /\ op.self.mro_pointer = ClassDef("C") /\ op.self.type = Instance("C")
    /\ op.self._scope = F_A_m /\ op.name = "m"
    /\ Top.out = <<BoundMethod(F_B_m, ClassDef("B")), BoundMethod(F_A_m, ClassDef("A"))>>

\* the class of c declares or inherits special method n
HasMethod(c, n) == ClassDef_getattr(c, n).err = NoError
\* what that method returns
MethodBody(c, n) == ClassDef_getattr(c, n).vals[1].body

\* C6: bool_value() is True when the class has neither __bool__ nor __len__;
\* falsy when it has no __bool__ and its __len__ gives 0; truthy when its
\* __bool__ gives a true value, whatever __len__ gives; when __bool__ fails
\* the answer is that of __len__; no InferenceError or
\* AttributeInferenceError leaves bool_value.
C6_BoolValue ==
    (pc = "done" /\ op.kind = "bool_value")
    => LET c == op.self.proxied
       IN  /\ result.err = NoError
           /\ (~HasMethod(c, "__bool__") /\ ~HasMethod(c, "__len__"))
              => result.truth = "True"
           /\ (~HasMethod(c, "__bool__") /\ HasMethod(c, "__len__")
                  /\ MethodBody(c, "__len__") = RetConst(0))
              => result.truth = "False"
           /\ (HasMethod(c, "__bool__") /\ MethodBody(c, "__bool__").k = "const"
                  /\ MethodBody(c, "__bool__").v # 0)
              => result.truth = "True"
           /\ (HasMethod(c, "__bool__") /\ MethodBody(c, "__bool__") = RetFail
                  /\ HasMethod(c, "__len__") /\ MethodBody(c, "__len__").k = "const")
              => result.truth = IF MethodBody(c, "__len__").v # 0 THEN "True" ELSE "False"

\* C has a __bool__ that gives 1 and inherits a __len__ that gives 0
C6_Witness ==
    /\ pc = "done" /\ op.kind = "bool_value" /\ op.self = Instance("C")
    /\ op.probe = "__bool__" /\ result.truth = "True"
    /\ MethodBody("C", "__len__") = RetConst(0)

\* the state in which UnboundMethod(F).infer_call_result(caller, ctx') starts
\* when ctx' is a clone of the caller's context with boundnode X, or a fresh
\* context with boundnode X when the caller has none
PreparedCall(F, X, caller, cref, h, ps) ==
    LET h1 == IF cref = 0
              THEN Append(h, [path |-> Len(ps) + 1, callcontext |-> None,
                              boundnode |-> None])
              ELSE h
        ps1 == IF cref = 0 THEN Append(ps, {}) ELSE ps
        base == IF cref = 0 THEN h1[Len(h1)] ELSE h[cref]
        prepared == Append(h1, [base EXCEPT !.boundnode = X])
    IN  UnboundMethod_infer_call_result(UnboundMethod(F), caller, Len(prepared),
                                        prepared, ps1)

\* C8: BoundMethod(F, X).infer_call_result(caller, ctx) starts, and so runs
\* and ends, as UnboundMethod(F).infer_call_result(caller, ctx') does, ctx'
\* being a clone of ctx with boundnode X (a fresh context with boundnode X
\* when ctx is absent): the same context objects, the same lookup started or
\* the same result; the contexts that existed before the call, the caller's
\* among them, keep their fields.
C8_BindingEquivalence ==
    (op.kind = "infer_call_result" /\ op.meth.kind = "BoundMethod")
    => LET u == PreparedCall(op.meth.proxied, op.meth.bound, op.caller, op.ctx,
                             op.before.heap, op.before.paths)
       IN  /\ op.now = u.now
           /\ (pc = "run" /\ Len(stack) = 1
                 /\ Top.phase = (IF op.now THEN "done" ELSE "enter"))
              => /\ heap = u.heap
                 /\ paths = u.paths
                 /\ Top.ctx = u.ctx
                 /\ heap[Top.ctx].boundnode = op.meth.bound
                 /\ IF op.now THEN Top.out = u.res.vals /\ Top.err = u.res.err
                    ELSE Top.self = u.target /\ Top.name = u.name
           /\ (pc = "done" /\ op.now) => (result.vals = u.res.vals /\ result.err = u.res.err)
           /\ pc # "idle" =>
                \A i \in 1..Len(op.before.heap) : heap[i] = op.before.heap[i]

\* the method returns its receiver: the bound object, while the caller's
\* context keeps its own bound node
C8_Witness ==
    /\ pc = "done" /\ op.kind = "infer_call_result" /\ op.ctx = 1
    /\ op.meth = BoundMethod(F_A_m, Instance("A"))
    /\ heap[1].boundnode = Instance("D")
    /\ result.vals = <<Instance("A")>>

\* C10 as stated: getitem returns the first result of the call of the bound
\* __getitem__ or fails with InferenceError; no other failure leaves it.
C10_OnlyInferenceError ==
    (pc = "done" /\ op.kind = "getitem")
    => /\ result.err \in {NoError, InferenceError}
       /\ result.err = NoError => Len(result.vals) = 1

\* on a context that has looked __getitem__ up on the class before, the
\* lookup inside getitem yields nothing and next() raises StopIteration
C10_Witness ==
    /\ pc = "done" /\ op.kind = "getitem" /\ op.self = Instance("B") /\ op.ctx = 1
    /\ <<"B", "__getitem__">> \in op.visited
    /\ result.err = StopIteration

\* the guard set the frame's context names
GuardOf(f) == paths[heap[f.ctx].path]

\* an igetattr that has been entered has its pair in the guard set of its
\* context; one that has not been entered has looked nothing up
Recorded ==
    \A k \in 1..Len(stack) :
        stack[k].kind = "igetattr" =>
            IF stack[k].phase = "enter"
            THEN stack[k].log = <<>> /\ stack[k].out = <<>>
            ELSE <<stack[k].self.proxied, stack[k].name>> \in GuardOf(stack[k])

\* an igetattr entered for a pair its context held already has looked
\* nothing up, yields nothing and ends without an exception
ReenteredSilent ==
    \A k \in 1..Len(stack) :
        stack[k].kind = "igetattr" /\ stack[k].reentered =>
            /\ stack[k].phase = "done"
            /\ stack[k].out = <<>> /\ stack[k].log = <<>> /\ stack[k].err = NoError

\* a step leaves every pair in the guard set of every context that lives on
GuardGrows ==
    \A i \in 1..Len(paths) : i <= Len(paths') => paths[i] \subseteq paths'[i]

\* C11: the recursion guard of a context is push-only.  Every igetattr of an
\* instance records (proxied class, name) in the guard set of its context
\* before it looks anything up; no step of igetattr, getattr, _wrap_attr,
\* infer_call_result, getitem or bool_value takes a pair out of the guard set
\* of a context that lives on; and an igetattr for a pair the context holds
\* already yields no value.
C11_GuardPushOnly ==
    /\ [](Recorded /\ ReenteredSilent)
    /\ [][GuardGrows]_vars

\* C11 happens: an earlier call on the caller's context has left
\* (B, __getitem__) in its guard set, and an igetattr of __getitem__ on that
\* context has ended without a value, the pair still being there
C11_Witness ==
    /\ Ended("igetattr") /\ op.ctx = 1
    /\ Top.self = Instance("B") /\ Top.name = "__getitem__"
    /\ Top.reentered /\ Top.out = <<>>
    /\ <<"B", "__getitem__">> \in paths[1]

====
